---- MODULE Spec2Model ----
(***************************************************************************)
(* Care-taker portal, methods.js: the three write endpoints                *)
(* (post_medication, post_schedule, post_session), the helpers they call   *)
(* (getMedicationById, createMedication, getCaretakerEmail,                *)
(* sendEmailToCaretaker) and the two reporting queries                     *)
(* (getPatientMedicationSchedule, getIngestionTime).                       *)
(*                                                                         *)
(* Every handler is an async function: it runs without interruption from   *)
(* the moment one awaited call settles to the moment it makes the next, so *)
(* one action of the model is one awaited call settling together with the  *)
(* synchronous code that follows it.  pc names the call being awaited.     *)
(*                                                                         *)
(* The store is Sequelize.  A query that is given {transaction: t} runs in *)
(* t: its rows are seen by nobody else until t commits and are discarded   *)
(* when t rolls back.  A query that is given no transaction option runs on *)
(* a connection of its own in autocommit mode: it is durable and visible   *)
(* as soon as the awaited call returns, whatever happens to t later.       *)
(***************************************************************************)
EXTENDS Integers, Sequences, FiniteSets, TLC

\* ------------------------------------------------------------------ bounds
\* Request slots: the number of requests a behaviour serves, all of which
\* may be in flight at once.
MaxReqs == 1
\* Longest list of items (medications, schedules, intakes) in a request body.
MaxItems == 2
\* Longest list of SessionIntake rows handed to getIngestionTime.
MaxIntakes == 3
\* Longest Schedule table handed to getPatientMedicationSchedule.
MaxSchedules == 4

Slots == 1..MaxReqs

\* ------------------------------------------------------------ JS values
Undefined == "undefined"
NoTxn == 0

\* getMedicationById's three results that are not a medication.
NullMedication == [type |-> "null"]
UndefinedMedication == [type |-> "undefined"]

\* -------------------------------------------------- external collaborators
\* The drug database behind constants.FDABaseUrl, after
\* utils.mapMedicationData: what a lookup by id finds.  m1 and m2 share a
\* brand name, m1 has two product codes, m4 is unknown upstream.
MedIds == {"m1", "m2", "m3", "m4"}

FDAResults(id) ==
    CASE id = "m1" -> <<[type |-> "object", id |-> "m1", brand_name |-> "A",
                         generic_name |-> "a1", product_ndc |-> <<"n1", "n2">>]>>
      [] id = "m2" -> <<[type |-> "object", id |-> "m2", brand_name |-> "A",
                         generic_name |-> "a2", product_ndc |-> <<"n3">>]>>
      [] id = "m3" -> <<[type |-> "object", id |-> "m3", brand_name |-> "B",
                         generic_name |-> "b1", product_ndc |-> <<"n4">>]>>
      [] OTHER -> <<>>

\* The seeded Patient and Caretaker tables (never written by methods.js):
\* Patient.findOne({where: {id}, include: Caretaker}).  p3 is no patient.
PatientIds == {"p1", "p2", "p3"}

PatientFindOne(patientId) ==
    CASE patientId = "p1" -> <<[id |-> "p1", Caretaker |-> [email |-> "e1"]]>>
      [] patientId = "p2" -> <<[id |-> "p2", Caretaker |-> [email |-> "e2"]]>>
      [] OTHER -> <<>>

\* ------------------------------------------------------------------ state
VARIABLES
    db,          \* committed tables: table name -> sequence of rows
    pending,     \* per request: rows written in its transaction, uncommitted
    req,         \* per request: req.body (and which endpoint it came to)
    pc,          \* per request: the await the handler is at
    i,           \* per request: index of the loop's current item
    j,           \* per request: index of createMedication's current ndc
    medication,  \* per request: createMedication's `medication`
    caretakerEmail, \* per request: post_session's `caretakerEmail`
    t,           \* per request: the Sequelize transaction's state
    tlog,        \* per request: the commit/rollback calls made and their outcome
    res,         \* per request: the responses sent (status codes)
    mail,        \* transporter.sendMail calls made: request, intake, recipient
    view,        \* last getPatientMedicationSchedule result, with the reader's patient
    intakes,     \* getIngestionTime: the rows its query returned
    report       \* getIngestionTime: its last result

vars == <<db, pending, req, pc, i, j, medication, caretakerEmail, t, tlog,
          res, mail, view, intakes, report>>

Tables == {"Medication", "NDC", "CabinetBox", "Schedule", "Session", "SessionIntake"}

EmptyTables == [tbl \in Tables |-> <<>>]

NoBody == [kind |-> "none"]

\* ------------------------------------------------------- sequence helpers
Range(s) == {s[k] : k \in 1..Len(s)}

SeqsUpTo(S, n) == UNION {[1..m -> S] : m \in 0..n}

\* ---------------------------------------------------------- the ORM calls
\* Model.create(row, options): one INSERT, in options.transaction when one
\* is given and in autocommit otherwise.
Create(r, tbl, row, transaction) ==
    IF transaction = NoTxn
    THEN /\ db' = [db EXCEPT ![tbl] = Append(@, row)]
         /\ UNCHANGED pending
    ELSE /\ pending' = [pending EXCEPT ![transaction][tbl] = Append(@, row)]
         /\ UNCHANGED db

\* Whether rows a and b have the same values in the columns of key.
SameKey(a, b, key) == \A column \in key : a[column] = b[column]

\* Mutation of UpsertRows: Model.create in place of Model.upsert.
InsertRows(rows, row, key) == Append(rows, row)

\* Model.upsert(row): insert, or overwrite the row with the same key.
UpsertRows(rows, row, key) ==
    IF \E k \in 1..Len(rows) : SameKey(rows[k], row, key)
    THEN [k \in 1..Len(rows) |-> IF SameKey(rows[k], row, key) THEN row ELSE rows[k]]
    ELSE Append(rows, row)

\* The keys of the three upserted tables (the schema of ./database):
\* Medication by its external id, NDC by its code, CabinetBox by cabinet and
\* medication.
MedicationKey == {"id"}

NDCKey == {"code"}

CabinetBoxKey == {"cabinet_id", "medication_id"}

\* The Medication columns of a looked-up medication.
MedicationRow(m) == [id |-> m.id, brand_name |-> m.brand_name, generic_name |-> m.generic_name]

\* --------------------------------------------------------- request bodies
\* post_medication: the ids put in a cabinet, one of them unknown upstream.
CabinetMedIds == {"m1", "m2", "m4"}

MedicationItems == [medication_id : CabinetMedIds, box : {1}, quantity : {1}]

\* A body that lacks an id is thrown out before its list is read, so one
\* item stands for any list it carries.
MedicationBodies ==
    {body \in [kind : {"post_medication"}, cabinet_id : {Undefined, "c1"},
               medications : SeqsUpTo(MedicationItems, MaxItems)] :
        body.cabinet_id = Undefined => Len(body.medications) <= 1}

\* post_schedule: m4 has no Medication row, p3 is no patient.
ScheduleItems == [medication_id : {"m1", "m4"}, day : {"mon"}, time : {"08:00"}]

ScheduleBodies ==
    {body \in [kind : {"post_schedule"}, cabinet_id : {Undefined, "c1"},
               patient_id : {Undefined, "p1", "p3"},
               medications : SeqsUpTo(ScheduleItems, MaxItems)] :
        (body.patient_id = Undefined \/ body.cabinet_id = Undefined)
            => Len(body.medications) <= 1}

\* post_session: the times are instants, in milliseconds since the epoch.
IntakeItems ==
    [medication_id : {"m1"}, start_time : {0}, ingest_time : {60000},
     end_time : {300000}, ingested : BOOLEAN]

SessionBodies ==
    {body \in [kind : {"post_session"}, cabinet_id : {Undefined, "c1"},
               patient_id : {Undefined, "p1", "p2", "p3"},
               session_intakes : SeqsUpTo(IntakeItems, MaxItems)] :
        (body.patient_id = Undefined \/ body.cabinet_id = Undefined)
            => Len(body.session_intakes) <= 1}

\* The Schedule tables the grouping is checked on: rows post_schedule made
\* for patients p1 and p2 and the catalogued medications.
ScheduleRows ==
    [patient_id : {"p1", "p2"}, medication_id : {"m1", "m2", "m3"},
     day : {"mon"}, time : {"08:00"}]

ScheduleTables ==
    {[k \in 1..Len(rows) |->
         [id |-> <<0, k>>, patient_id |-> rows[k].patient_id,
          medication_id |-> rows[k].medication_id,
          day |-> rows[k].day, time |-> rows[k].time]] :
     rows \in SeqsUpTo(ScheduleRows, MaxSchedules)}

\* The rows getIngestionTime's query returns: SessionIntake rows joined to
\* their Medication, the times being instants.
IntakeRows ==
    {[medication_id |-> m, start_time |-> [epoch_ms |-> s], end_time |-> [epoch_ms |-> e],
      Medication |-> [brand_name |-> FDAResults(m)[1].brand_name,
                      generic_name |-> FDAResults(m)[1].generic_name]] :
     m \in {"m1", "m3"}, s \in {0, 60000}, e \in {300000, 900000}}

\* -------------------------------------------------- handler: common steps
Idle(r) == pc[r] = "idle"

Items(r) ==
    CASE req[r].kind = "post_medication" -> req[r].medications
      [] req[r].kind = "post_schedule" -> req[r].medications
      [] req[r].kind = "post_session" -> req[r].session_intakes

\* A request arrives and the handler calls sequelize.transaction().  Slots
\* are taken in order.
Receive(r, body) ==
    /\ Idle(r)
    /\ \A q \in Slots : q < r => ~Idle(q)
    /\ req' = [req EXCEPT ![r] = body]
    /\ pc' = [pc EXCEPT ![r] = "sequelize.transaction"]
    /\ UNCHANGED <<db, pending, i, j, medication, caretakerEmail, t, tlog,
                   res, mail, view, intakes, report>>

\* The handler's locals once it has returned or rejected.
Return(r, at) ==
    /\ pc' = [pc EXCEPT ![r] = at]
    /\ i' = [i EXCEPT ![r] = 0]
    /\ j' = [j EXCEPT ![r] = 0]
    /\ medication' = [medication EXCEPT ![r] = UndefinedMedication]
    /\ caretakerEmail' = [caretakerEmail EXCEPT ![r] = Undefined]

\* const t = await sequelize.transaction() rejects: the call is before the
\* try block, so the handler rejects with no response sent.
TransactionRejects(r) ==
    /\ pc[r] = "sequelize.transaction"
    /\ Return(r, "rejected")
    /\ UNCHANGED <<db, pending, req, t, tlog, res, mail, view, intakes, report>>

\* A throw inside the try block: the catch clause calls t.rollback().
Throw(r) == pc' = [pc EXCEPT ![r] = "t.rollback"]

\* `for (const x of items)` after item i: the next item's first call, or
\* t.commit() after the last.
NextItem(r, first) ==
    IF i[r] < Len(Items(r))
    THEN /\ i' = [i EXCEPT ![r] = i[r] + 1]
         /\ pc' = [pc EXCEPT ![r] = first]
    ELSE /\ pc' = [pc EXCEPT ![r] = "t.commit"]
         /\ UNCHANGED i

\* await t.commit() settles; res.status(200).send(...) follows a commit that
\* went through.  Transaction.commit sets finished = 'commit' whether or not
\* the COMMIT went through; a COMMIT that did not leaves nothing behind.
Commit(r) ==
    /\ pc[r] = "t.commit"
    /\ t' = [t EXCEPT ![r] = "commit"]
    /\ pending' = [pending EXCEPT ![r] = EmptyTables]
    /\ \/ /\ db' = [tbl \in Tables |-> db[tbl] \o pending[r][tbl]]
          /\ tlog' = [tlog EXCEPT ![r] = Append(@, [op |-> "commit", ok |-> TRUE])]
          /\ res' = [res EXCEPT ![r] = Append(@, 200)]
          /\ Return(r, "done")
       \/ /\ tlog' = [tlog EXCEPT ![r] = Append(@, [op |-> "commit", ok |-> FALSE])]
          /\ Throw(r)
          /\ UNCHANGED <<db, res, i, j, medication, caretakerEmail>>
    /\ UNCHANGED <<req, mail, view, intakes, report>>

\* catch (err) { await t.rollback(); console.error(err);
\* res.status(400).send(...) }: t.rollback() settles.  Transaction.rollback
\* throws when the transaction is already finished, and may fail as any
\* query may; the catch clause has no handler of its own, so the handler
\* then rejects with no response sent.
Rollback(r) ==
    /\ pc[r] = "t.rollback"
    /\ pending' = [pending EXCEPT ![r] = EmptyTables]
    /\ IF t[r] = "open"
       THEN /\ t' = [t EXCEPT ![r] = "rollback"]
            /\ \/ /\ tlog' = [tlog EXCEPT ![r] = Append(@, [op |-> "rollback", ok |-> TRUE])]
                  /\ res' = [res EXCEPT ![r] = Append(@, 400)]
                  /\ Return(r, "done")
               \/ /\ tlog' = [tlog EXCEPT ![r] = Append(@, [op |-> "rollback", ok |-> FALSE])]
                  /\ Return(r, "rejected")
                  /\ UNCHANGED res
       ELSE /\ tlog' = [tlog EXCEPT ![r] = Append(@, [op |-> "rollback", ok |-> FALSE])]
            /\ Return(r, "rejected")
            /\ UNCHANGED <<t, res>>
    /\ UNCHANGED <<db, req, mail, view, intakes, report>>

\* ------------------------------------------------ handler: post_medication
post_medication_receive(r) == \E body \in MedicationBodies : Receive(r, body)

\* sequelize.transaction() resolves; if (cabinet_id === undefined) throw
\* Error; otherwise the loop over req.body.medications starts.
post_medication_begin(r) ==
    /\ pc[r] = "sequelize.transaction"
    /\ req[r].kind = "post_medication"
    /\ t' = [t EXCEPT ![r] = "open"]
    /\ IF req[r].cabinet_id = Undefined
       THEN Throw(r) /\ UNCHANGED i
       ELSE /\ i' = [i EXCEPT ![r] = 1]
            /\ pc' = [pc EXCEPT ![r] =
                     IF Len(req[r].medications) = 0 THEN "t.commit" ELSE "getMedicationById"]
    /\ UNCHANGED <<db, pending, req, j, medication, caretakerEmail, tlog,
                   res, mail, view, intakes, report>>

\* Mutation of CreateMedicationNext: createMedication returns quietly when
\* the lookup found nothing.
CreateMedicationSkipsAbsent(m) ==
    IF m.type = "object" THEN "Medication.upsert" ELSE "CabinetBox.upsert"

\* createMedication after the lookup: Medication.upsert(medication) is called;
\* with a null or undefined medication it throws a TypeError, which
\* post_medication catches.
CreateMedicationNext(m) ==
    IF m.type = "object" THEN "Medication.upsert" ELSE "t.rollback"

\* createMedication: const medication = await getMedicationById(id).  The
\* lookup returns the first result, null when there is none, and undefined
\* when the request failed (the error is logged, nothing is returned).
getMedicationById(r) ==
    /\ pc[r] = "getMedicationById"
    /\ LET id == req[r].medications[i[r]].medication_id
           results == FDAResults(id)
       IN \/ medication' = [medication EXCEPT ![r] =
                              IF results # <<>> THEN results[1] ELSE NullMedication]
          \/ medication' = [medication EXCEPT ![r] = UndefinedMedication]
    /\ pc' = [pc EXCEPT ![r] = CreateMedicationNext(medication'[r])]
    /\ UNCHANGED <<db, pending, req, i, j, caretakerEmail, t, tlog,
                   res, mail, view, intakes, report>>

\* createMedication: await Medication.upsert(medication), no transaction
\* option; then the loop over medication.product_ndc starts.
createMedication_Medication_upsert(r) ==
    /\ pc[r] = "Medication.upsert"
    /\ \/ /\ db' = [db EXCEPT !.Medication =
                      UpsertRows(@, MedicationRow(medication[r]), MedicationKey)]
          /\ j' = [j EXCEPT ![r] = 1]
          /\ pc' = [pc EXCEPT ![r] =
                   IF Len(medication[r].product_ndc) = 0
                   THEN "CabinetBox.upsert" ELSE "NDC.upsert"]
       \/ Throw(r) /\ UNCHANGED <<db, j>>
    /\ UNCHANGED <<pending, req, i, medication, caretakerEmail, t, tlog, res,
                   mail, view, intakes, report>>

\* createMedication: for (const ndc of medication.product_ndc)
\*     await NDC.upsert({code: ndc, medication_id: id}), no transaction option.
createMedication_NDC_upsert(r) ==
    /\ pc[r] = "NDC.upsert"
    /\ LET codes == medication[r].product_ndc
           id == req[r].medications[i[r]].medication_id
       IN \/ /\ db' = [db EXCEPT !.NDC =
                         UpsertRows(@, [code |-> codes[j[r]], medication_id |-> id], NDCKey)]
             /\ IF j[r] < Len(codes)
                THEN j' = [j EXCEPT ![r] = j[r] + 1] /\ UNCHANGED pc
                ELSE pc' = [pc EXCEPT ![r] = "CabinetBox.upsert"] /\ UNCHANGED j
          \/ Throw(r) /\ UNCHANGED <<db, j>>
    /\ UNCHANGED <<pending, req, i, medication, caretakerEmail, t, tlog, res,
                   mail, view, intakes, report>>

\* await CabinetBox.upsert({cabinet_id, medication_id, box, quantity}), no
\* transaction option; then the next medication.
post_medication_CabinetBox_upsert(r) ==
    /\ pc[r] = "CabinetBox.upsert"
    /\ LET med == req[r].medications[i[r]]
           row == [cabinet_id |-> req[r].cabinet_id, medication_id |-> med.medication_id,
                   box |-> med.box, quantity |-> med.quantity]
       IN \/ /\ db' = [db EXCEPT !.CabinetBox = UpsertRows(@, row, CabinetBoxKey)]
             /\ NextItem(r, "getMedicationById")
          \/ Throw(r) /\ UNCHANGED <<db, i>>
    /\ UNCHANGED <<pending, req, j, medication, caretakerEmail, t, tlog, res,
                   mail, view, intakes, report>>

\* -------------------------------------------------- handler: post_schedule
post_schedule_receive(r) == \E body \in ScheduleBodies : Receive(r, body)

\* The options post_schedule gives Schedule.create: none.
ScheduleCreateOptions(r) == NoTxn

\* Schedule belongs to a Patient and to a Medication (the associations the
\* include of getPatientMedicationSchedule needs): the store refuses a row
\* that references neither.
ScheduleReferencesExist(row) ==
    /\ PatientFindOne(row.patient_id) # <<>>
    /\ \E m \in Range(db.Medication) : m.id = row.medication_id

\* sequelize.transaction() resolves; if (patient_id === undefined ||
\* cabinet_id === undefined) throw Error; otherwise the loop over
\* req.body.medications starts.
post_schedule_begin(r) ==
    /\ pc[r] = "sequelize.transaction"
    /\ req[r].kind = "post_schedule"
    /\ t' = [t EXCEPT ![r] = "open"]
    /\ IF req[r].patient_id = Undefined \/ req[r].cabinet_id = Undefined
       THEN Throw(r) /\ UNCHANGED i
       ELSE /\ i' = [i EXCEPT ![r] = 1]
            /\ pc' = [pc EXCEPT ![r] =
                     IF Len(req[r].medications) = 0 THEN "t.commit" ELSE "Schedule.create"]
    /\ UNCHANGED <<db, pending, req, j, medication, caretakerEmail, tlog,
                   res, mail, view, intakes, report>>

\* await Schedule.create({patient_id, medication_id, day, time}); then the
\* next schedule.  The row's id names the request and the item it is from.
post_schedule_Schedule_create(r) ==
    /\ pc[r] = "Schedule.create"
    /\ LET schedule == req[r].medications[i[r]]
           row == [id |-> <<r, i[r]>>, patient_id |-> req[r].patient_id,
                   medication_id |-> schedule.medication_id,
                   day |-> schedule.day, time |-> schedule.time]
       IN \/ /\ ScheduleReferencesExist(row)
             /\ Create(r, "Schedule", row, ScheduleCreateOptions(r))
             /\ NextItem(r, "Schedule.create")
          \/ Throw(r) /\ UNCHANGED <<db, pending, i>>
    /\ UNCHANGED <<req, j, medication, caretakerEmail, t, tlog, res,
                   mail, view, intakes, report>>

\* --------------------------------------------------- handler: post_session
post_session_receive(r) == \E body \in SessionBodies : Receive(r, body)

\* Mutation of SessionIntakeCreateOptions: the options left out.
NoOptions(r) == NoTxn

\* The options post_session gives Session.create and SessionIntake.create:
\* {transaction: t}.
SessionCreateOptions(r) == r

SessionIntakeCreateOptions(r) == r

\* sequelize.transaction() resolves; if (patient_id === undefined ||
\* cabinet_id === undefined) throw Error; otherwise Session.create is called.
post_session_begin(r) ==
    /\ pc[r] = "sequelize.transaction"
    /\ req[r].kind = "post_session"
    /\ t' = [t EXCEPT ![r] = "open"]
    /\ IF req[r].patient_id = Undefined \/ req[r].cabinet_id = Undefined
       THEN Throw(r)
       ELSE pc' = [pc EXCEPT ![r] = "Session.create"]
    /\ UNCHANGED <<db, pending, req, i, j, medication, caretakerEmail, tlog,
                   res, mail, view, intakes, report>>

\* const session = await Session.create(req.body, {transaction: t}); then
\* the loop over session_intakes starts.  session.id names the request.
post_session_Session_create(r) ==
    /\ pc[r] = "Session.create"
    /\ LET row == [id |-> r, patient_id |-> req[r].patient_id,
                   cabinet_id |-> req[r].cabinet_id]
       IN \/ /\ Create(r, "Session", row, SessionCreateOptions(r))
             /\ i' = [i EXCEPT ![r] = 1]
             /\ pc' = [pc EXCEPT ![r] =
                      IF Len(req[r].session_intakes) = 0
                      THEN "t.commit" ELSE "SessionIntake.create"]
          \/ Throw(r) /\ UNCHANGED <<db, pending, i>>
    /\ UNCHANGED <<req, j, medication, caretakerEmail, t, tlog, res,
                   mail, view, intakes, report>>

\* Mutation of NotifyCaretaker: every intake notifies.
NotifyAlways(intake) == TRUE

\* if (!intake.ingested): whether the intake calls for a notification.
NotifyCaretaker(intake) == ~intake.ingested

\* await SessionIntake.create({...intake, session_id: session.id},
\* {transaction: t}); then if (!intake.ingested) getCaretakerEmail is called,
\* else the next intake.
post_session_SessionIntake_create(r) ==
    /\ pc[r] = "SessionIntake.create"
    /\ LET intake == req[r].session_intakes[i[r]]
           row == [id |-> <<r, i[r]>>, medication_id |-> intake.medication_id,
                   start_time |-> intake.start_time, ingest_time |-> intake.ingest_time,
                   end_time |-> intake.end_time, ingested |-> intake.ingested,
                   session_id |-> r]
       IN \/ /\ Create(r, "SessionIntake", row, SessionIntakeCreateOptions(r))
             /\ IF NotifyCaretaker(intake)
                THEN pc' = [pc EXCEPT ![r] = "getCaretakerEmail"] /\ UNCHANGED i
                ELSE NextItem(r, "SessionIntake.create")
          \/ Throw(r) /\ UNCHANGED <<db, pending, i>>
    /\ UNCHANGED <<req, j, medication, caretakerEmail, t, tlog, res,
                   mail, view, intakes, report>>

\* The address getCaretakerEmail returns for a found patient.
CaretakerEmailOf(patient) == patient.Caretaker.email

\* const caretakerEmail = await getCaretakerEmail(patient_id): Patient.findOne
\* settles (outside t); no patient, or a failed query, throws; otherwise
\* sendEmailToCaretaker calls transporter.sendMail with the caretaker's
\* address.  mail records the call.
getCaretakerEmail(r) ==
    /\ pc[r] = "getCaretakerEmail"
    /\ LET found == PatientFindOne(req[r].patient_id)
       IN \/ /\ found # <<>>
             /\ caretakerEmail' = [caretakerEmail EXCEPT ![r] = CaretakerEmailOf(found[1])]
             /\ mail' = Append(mail, [req |-> r, intake |-> i[r],
                                      to |-> CaretakerEmailOf(found[1]), sent |-> "pending"])
             /\ pc' = [pc EXCEPT ![r] = "transporter.sendMail"]
          \/ Throw(r) /\ UNCHANGED <<caretakerEmail, mail>>
    /\ UNCHANGED <<db, pending, req, i, j, medication, t, tlog, res,
                   view, intakes, report>>

\* await transporter.sendMail(mailOptions) settles: the error is logged and
\* thrown again; otherwise the next intake.
sendEmailToCaretaker(r) ==
    /\ pc[r] = "transporter.sendMail"
    /\ LET Settle(ok) ==
               [k \in 1..Len(mail) |->
                   IF mail[k].req = r /\ mail[k].intake = i[r]
                   THEN [mail[k] EXCEPT !.sent = ok] ELSE mail[k]]
       IN \/ /\ mail' = Settle("yes")
             /\ NextItem(r, "SessionIntake.create")
          \/ /\ mail' = Settle("no")
             /\ Throw(r)
             /\ UNCHANGED i
    /\ UNCHANGED <<db, pending, req, j, medication, caretakerEmail, t, tlog,
                   res, view, intakes, report>>

\* ------------------------------------- query: getPatientMedicationSchedule
\* The elements of ks in the order each first occurs: the key order of the
\* object _.groupBy builds.
FirstOccurrences(ks) ==
    LET first == SelectSeq([k \in 1..Len(ks) |-> k],
                           LAMBDA k : \A m \in 1..(k - 1) : ks[m] # ks[k])
    IN [n \in 1..Len(first) |-> ks[first[n]]]

\* Schedule.findAll({where: {patient_id}, include: [{model: Medication,
\* required: true}, {model: Patient, required: true, where: {id}}]}): the
\* committed rows of the patient, each joined to its Medication; a row with no
\* Medication or no Patient is not returned.
ScheduleFindAll(patientId) ==
    LET rows == SelectSeq(db.Schedule,
                    LAMBDA s : /\ s.patient_id = patientId
                               /\ PatientFindOne(patientId) # <<>>
                               /\ \E m \in Range(db.Medication) : m.id = s.medication_id)
    IN [k \in 1..Len(rows) |->
           [id |-> rows[k].id, patient_id |-> rows[k].patient_id,
            medication_id |-> rows[k].medication_id,
            day |-> rows[k].day, time |-> rows[k].time,
            Medication |-> CHOOSE m \in Range(db.Medication) : m.id = rows[k].medication_id]]

\* Mutation of ScheduleGroupKey: grouping by the generic name.
ScheduleGroupKeyGeneric(schedule) == schedule.Medication.generic_name

\* The iteratee of _.groupBy: (schedule) => schedule.Medication.brand_name.
ScheduleGroupKey(schedule) == schedule.Medication.brand_name

getPatientMedicationSchedule(patientId) ==
    LET schedules == ScheduleFindAll(patientId)
        names == FirstOccurrences([k \in 1..Len(schedules) |-> ScheduleGroupKey(schedules[k])])
    IN [g \in 1..Len(names) |->
           [brand_name |-> names[g],
            schedules |-> SelectSeq(schedules, LAMBDA s : ScheduleGroupKey(s) = names[g])]]

\* A request for a patient's schedule is served.  unreturned records the
\* requests that had not returned success when the query ran.
getPatientMedicationSchedule_read(patientId) ==
    /\ view' = [patient |-> patientId,
                groups |-> getPatientMedicationSchedule(patientId),
                unreturned |-> {r \in Slots : ~Idle(r) /\ res[r] # <<200>>}]
    /\ UNCHANGED <<db, pending, req, pc, i, j, medication, caretakerEmail, t,
                   tlog, res, mail, intakes, report>>

\* ------------------------------------------------- query: getIngestionTime
\* Numbers that a division makes are kept as fractions in lowest terms.
RECURSIVE GCD(_, _)
GCD(a, b) == IF b = 0 THEN a ELSE GCD(b, a % b)

Abs(n) == IF n < 0 THEN -n ELSE n

Fraction(n, d) ==
    LET g == GCD(Abs(n), d)
    IN [num |-> n \div g, den |-> d \div g]

FractionAdd(a, b) == Fraction(a.num * b.den + b.num * a.den, a.den * b.den)

\* new Date(v): the instant v, whose value is its milliseconds since the epoch
\* (what a Date gives when it is subtracted).
NewDate(v) == v.epoch_ms

\* const ingestionTime = (endTime - startTime) / 60; // in minutes
IngestionTime(intake) ==
    Fraction(NewDate(intake.end_time) - NewDate(intake.start_time), 60)

RECURSIVE SumBy(_)
SumBy(items) ==
    IF items = <<>> THEN Fraction(0, 1)
    ELSE FractionAdd(items[1].ingestionTime, SumBy(Tail(items)))

\* _.meanBy(items, 'ingestionTime')
meanBy(items) ==
    LET sum == SumBy(items)
    IN Fraction(sum.num, sum.den * Len(items))

getIngestionTime(sessionIntakes) ==
    LET ingestionTimes ==
            [k \in 1..Len(sessionIntakes) |->
                [medication_id |-> sessionIntakes[k].medication_id,
                 brand_name |-> sessionIntakes[k].Medication.brand_name,
                 generic_name |-> sessionIntakes[k].Medication.generic_name,
                 ingestionTime |-> IngestionTime(sessionIntakes[k])]]
        ids == FirstOccurrences([k \in 1..Len(ingestionTimes) |-> ingestionTimes[k].medication_id])
        group(id) == SelectSeq(ingestionTimes, LAMBDA x : x.medication_id = id)
    IN [g \in 1..Len(ids) |->
           [medication_id |-> ids[g],
            brand_name |-> group(ids[g])[1].brand_name,
            generic_name |-> group(ids[g])[1].generic_name,
            average_ingestion_time |-> meanBy(group(ids[g]))]]

\* A request for a patient's ingestion times is served: sessionIntakes are the
\* rows SessionIntake.findAll returned.  (The result's medication_id is the
\* key of the group, kept to tell the groups apart.)
getIngestionTime_read ==
    /\ report' = [served |-> TRUE, rows |-> getIngestionTime(intakes)]
    /\ UNCHANGED <<db, pending, req, pc, i, j, medication, caretakerEmail, t,
                   tlog, res, mail, view, intakes>>

\* ---------------------------------------------------------- specifications
\* createMedication(id) run to its end on tables d.
RECURSIVE UpsertCodes(_, _, _)
UpsertCodes(rows, codes, id) ==
    IF codes = <<>> THEN rows
    ELSE UpsertCodes(UpsertRows(rows, [code |-> codes[1], medication_id |-> id], NDCKey),
                     Tail(codes), id)

AfterCreateMedication(d, id) ==
    LET m == FDAResults(id)[1]
    IN [d EXCEPT !.Medication = UpsertRows(@, MedicationRow(m), MedicationKey),
                 !.NDC = UpsertCodes(@, m.product_ndc, id)]

\* The catalogue after createMedication of m1, m2 and m3.
Catalogued ==
    AfterCreateMedication(AfterCreateMedication(AfterCreateMedication(
        EmptyTables, "m1"), "m2"), "m3")

NoView == [patient |-> Undefined, groups |-> <<>>, unreturned |-> {}]

NoReport == [served |-> FALSE, rows |-> <<>>]

InitHandlers ==
    /\ pending = [r \in Slots |-> EmptyTables]
    /\ req = [r \in Slots |-> NoBody]
    /\ pc = [r \in Slots |-> "idle"]
    /\ i = [r \in Slots |-> 0]
    /\ j = [r \in Slots |-> 0]
    /\ medication = [r \in Slots |-> UndefinedMedication]
    /\ caretakerEmail = [r \in Slots |-> Undefined]
    /\ t = [r \in Slots |-> "none"]
    /\ tlog = [r \in Slots |-> <<>>]
    /\ res = [r \in Slots |-> <<>>]
    /\ mail = <<>>
    /\ view = NoView
    /\ intakes = <<>>
    /\ report = NoReport

\* A fresh store.
Init ==
    /\ db = EmptyTables
    /\ InitHandlers

\* A store whose catalogue post_medication has filled.
InitCatalogued ==
    /\ db = Catalogued
    /\ InitHandlers

\* A store with a catalogue and some Schedule table.
InitSchedules ==
    /\ \E rows \in ScheduleTables : db = [Catalogued EXCEPT !.Schedule = rows]
    /\ InitHandlers

\* The rows a getIngestionTime query has returned.
InitIntakes ==
    /\ db = Catalogued
    /\ pending = [r \in Slots |-> EmptyTables]
    /\ req = [r \in Slots |-> NoBody]
    /\ pc = [r \in Slots |-> "idle"]
    /\ i = [r \in Slots |-> 0]
    /\ j = [r \in Slots |-> 0]
    /\ medication = [r \in Slots |-> UndefinedMedication]
    /\ caretakerEmail = [r \in Slots |-> Undefined]
    /\ t = [r \in Slots |-> "none"]
    /\ tlog = [r \in Slots |-> <<>>]
    /\ res = [r \in Slots |-> <<>>]
    /\ mail = <<>>
    /\ view = NoView
    /\ intakes \in SeqsUpTo(IntakeRows, MaxIntakes)
    /\ report = NoReport

NextMedication ==
    \E r \in Slots :
        \/ post_medication_receive(r)
        \/ TransactionRejects(r)
        \/ post_medication_begin(r)
        \/ getMedicationById(r)
        \/ createMedication_Medication_upsert(r)
        \/ createMedication_NDC_upsert(r)
        \/ post_medication_CabinetBox_upsert(r)
        \/ Commit(r)
        \/ Rollback(r)

SpecMedication == Init /\ [][NextMedication]_vars

NextSession ==
    \E r \in Slots :
        \/ post_session_receive(r)
        \/ TransactionRejects(r)
        \/ post_session_begin(r)
        \/ post_session_Session_create(r)
        \/ post_session_SessionIntake_create(r)
        \/ getCaretakerEmail(r)
        \/ sendEmailToCaretaker(r)
        \/ Commit(r)
        \/ Rollback(r)

SpecSession == Init /\ [][NextSession]_vars

NextSchedule ==
    \/ \E r \in Slots :
           \/ post_schedule_receive(r)
           \/ TransactionRejects(r)
           \/ post_schedule_begin(r)
           \/ post_schedule_Schedule_create(r)
           \/ Commit(r)
           \/ Rollback(r)
    \/ getPatientMedicationSchedule_read("p1")

SpecSchedule == InitCatalogued /\ [][NextSchedule]_vars

NextGrouping == \E patientId \in PatientIds : getPatientMedicationSchedule_read(patientId)

SpecGrouping == InitSchedules /\ [][NextGrouping]_vars

NextIngestion == getIngestionTime_read

SpecIngestion == InitIntakes /\ [][NextIngestion]_vars

Next ==
    \/ \E r \in Slots :
           \/ post_medication_receive(r)
           \/ post_schedule_receive(r)
           \/ post_session_receive(r)
           \/ TransactionRejects(r)
           \/ post_medication_begin(r)
           \/ getMedicationById(r)
           \/ createMedication_Medication_upsert(r)
           \/ createMedication_NDC_upsert(r)
           \/ post_medication_CabinetBox_upsert(r)
           \/ post_schedule_begin(r)
           \/ post_schedule_Schedule_create(r)
           \/ post_session_begin(r)
           \/ post_session_Session_create(r)
           \/ post_session_SessionIntake_create(r)
           \/ getCaretakerEmail(r)
           \/ sendEmailToCaretaker(r)
           \/ Commit(r)
           \/ Rollback(r)

\* A store that is fresh or whose catalogue post_medication has filled.
InitAny ==
    /\ db \in {EmptyTables, Catalogued}
    /\ InitHandlers

Spec == InitAny /\ [][Next]_vars

\* ------------------------------------------------------------------ claims
Ended(r) == pc[r] \in {"done", "rejected"}

CommitSucceeded(r) == [op |-> "commit", ok |-> TRUE] \in Range(tlog[r])

RollbackSucceeded(r) == [op |-> "rollback", ok |-> TRUE] \in Range(tlog[r])

\* The committed rows a post_session request made.
SessionRowsOf(r) == {k \in 1..Len(db.Session) : db.Session[k].id = r}

SessionIntakeRowsOf(r) == {k \in 1..Len(db.SessionIntake) : db.SessionIntake[k].session_id = r}

\* The committed Schedule rows a post_schedule request made.
ScheduleRowsOf(r) == {k \in 1..Len(db.Schedule) : db.Schedule[k].id[1] = r}

\* The sendMail calls made for intake k of request r.
Attempts(r, k) == {n \in 1..Len(mail) : mail[n].req = r /\ mail[n].intake = k}

MissingId(r) == req[r].patient_id = Undefined \/ req[r].cabinet_id = Undefined

\* C1: a post_session request leaves a Session row or a SessionIntake row in
\* the store only when its transaction committed: then the response is 200,
\* the Session row and one SessionIntake row per intake item are there, and
\* every notification the intakes called for was sent.  A request in which
\* any step failed (a row insert, the caretaker lookup, an email send, the
\* commit) leaves no row of its own, at any moment and after it has finished.
C1_SessionRollsBackWhole ==
    \A r \in Slots : req[r].kind = "post_session" =>
        /\ (SessionRowsOf(r) # {} \/ SessionIntakeRowsOf(r) # {}) =>
              /\ CommitSucceeded(r)
              /\ res[r] = <<200>>
              /\ \A k \in 1..Len(req[r].session_intakes) :
                    ~req[r].session_intakes[k].ingested =>
                        \E n \in Attempts(r, k) : mail[n].sent = "yes"
        /\ res[r] = <<200>> =>
              /\ Cardinality(SessionRowsOf(r)) = 1
              /\ Cardinality(SessionIntakeRowsOf(r)) = Len(req[r].session_intakes)
        /\ (Ended(r) /\ res[r] # <<200>>) =>
              SessionRowsOf(r) = {} /\ SessionIntakeRowsOf(r) = {}

\* C1's case: the email for the second of two intakes failed, after the
\* Session row and both SessionIntake rows had been written, and the request
\* has finished.
C1_Witness ==
    \E r \in Slots :
        /\ req[r].kind = "post_session"
        /\ Ended(r)
        /\ \E n \in Attempts(r, 2) : mail[n].sent = "no"

\* C2 as stated: once a post_session request has finished, every intake item
\* with ingested = false has had exactly one notification attempt, to the
\* email of the caretaker of the request's patient, and every item with
\* ingested = true none.
C2_OneAttemptPerMissedIntake ==
    \A r \in Slots : (req[r].kind = "post_session" /\ Ended(r)) =>
        \A k \in 1..Len(req[r].session_intakes) :
            IF req[r].session_intakes[k].ingested
            THEN Attempts(r, k) = {}
            ELSE /\ Cardinality(Attempts(r, k)) = 1
                 /\ \A n \in Attempts(r, k) :
                       /\ PatientFindOne(req[r].patient_id) # <<>>
                       /\ mail[n].to = PatientFindOne(req[r].patient_id)[1].Caretaker.email

\* C2 amended: the loop stops at the first step that fails.  At every moment
\* no intake item has more than one notification attempt and an item with
\* ingested = true has none; every attempt is for an item of the request with
\* ingested = false whose SessionIntake row was written, and is addressed to
\* the email of the caretaker of the request's patient; and a request that
\* reaches its commit has made exactly one attempt for every item with
\* ingested = false.
C2_AttemptsUpToFirstFailure ==
    \A r \in Slots : req[r].kind = "post_session" =>
        /\ \A n \in 1..Len(mail) : mail[n].req = r =>
              /\ mail[n].intake \in 1..Len(req[r].session_intakes)
              /\ ~req[r].session_intakes[mail[n].intake].ingested
              /\ PatientFindOne(req[r].patient_id) # <<>>
              /\ mail[n].to = PatientFindOne(req[r].patient_id)[1].Caretaker.email
              /\ \/ \E x \in Range(pending[r].SessionIntake) : x.id = <<r, mail[n].intake>>
                 \/ t[r] # "open"
        /\ \A k \in 1..Len(req[r].session_intakes) :
              /\ Cardinality(Attempts(r, k)) <= 1
              /\ req[r].session_intakes[k].ingested => Attempts(r, k) = {}
              /\ (~req[r].session_intakes[k].ingested /\ t[r] = "commit") =>
                    Cardinality(Attempts(r, k)) = 1

\* C2's case: a request for patient p2 with a missed and a taken intake has
\* returned 200.
C2_Witness ==
    \E r \in Slots :
        /\ req[r].kind = "post_session"
        /\ req[r].patient_id = "p2"
        /\ res[r] = <<200>>
        /\ Len(req[r].session_intakes) = 2
        /\ ~req[r].session_intakes[1].ingested
        /\ req[r].session_intakes[2].ingested

\* C3 as stated: once a post_schedule request with both ids has finished, the
\* store holds one Schedule row per item of the request if it answered 200,
\* and no Schedule row of the request if it did not.
C3_ScheduleAllOrNothing ==
    \A r \in Slots :
        (req[r].kind = "post_schedule" /\ ~MissingId(r) /\ Ended(r)) =>
            IF res[r] = <<200>>
            THEN Cardinality(ScheduleRowsOf(r)) = Len(req[r].medications)
            ELSE ScheduleRowsOf(r) = {}

\* C4 as stated: what getPatientMedicationSchedule returns holds no Schedule
\* row of a post_schedule request that had not yet returned success when the
\* query ran.
C4_NoScheduleVisibleBeforeCommit ==
    \A g \in 1..Len(view.groups) :
        \A k \in 1..Len(view.groups[g].schedules) :
            view.groups[g].schedules[k].id[1] \notin view.unreturned

\* C5 as stated: a post_session request with patient_id or cabinet_id missing
\* writes no Session row and no SessionIntake row, in its transaction or
\* outside, attempts no notification, and once finished has answered 400.
C5_MissingIdIsBadRequestBeforeAnyWrite ==
    \A r \in Slots : (req[r].kind = "post_session" /\ MissingId(r)) =>
        /\ SessionRowsOf(r) = {} /\ SessionIntakeRowsOf(r) = {}
        /\ pending[r] = EmptyTables
        /\ \A n \in 1..Len(mail) : mail[n].req # r
        /\ Ended(r) => res[r] = <<400>>

\* The stored state one complete createMedication(id) leaves for id: the one
\* Medication row of the lookup's result and, for each of its product codes,
\* the one NDC row that ties the code to id.
StoredOnce(id) ==
    /\ FDAResults(id) # <<>>
    /\ \E k \in 1..Len(db.Medication) :
          /\ db.Medication[k] = MedicationRow(FDAResults(id)[1])
          /\ \A n \in 1..Len(db.Medication) : db.Medication[n].id = id => n = k
    /\ \A code \in Range(FDAResults(id)[1].product_ndc) :
          \E k \in 1..Len(db.NDC) :
              /\ db.NDC[k] = [code |-> code, medication_id |-> id]
              /\ \A n \in 1..Len(db.NDC) : db.NDC[n].code = code => n = k

NoDuplicateRows ==
    /\ \A k, n \in 1..Len(db.Medication) :
          db.Medication[k].id = db.Medication[n].id => k = n
    /\ \A k, n \in 1..Len(db.NDC) : db.NDC[k].code = db.NDC[n].code => k = n

\* The medication id request r's createMedication is working on.
CurrentId(r) == req[r].medications[i[r]].medication_id

C7_MedicationBeforeCabinetBox ==
    /\ \A k \in 1..Len(db.CabinetBox) :
          LET id == db.CabinetBox[k].medication_id
          IN /\ FDAResults(id) # <<>>
             /\ \E m \in Range(db.Medication) : m.id = id
             /\ \A code \in Range(FDAResults(id)[1].product_ndc) :
                   [code |-> code, medication_id |-> id] \in Range(db.NDC)
    /\ \A r \in Slots : pc[r] = "CabinetBox.upsert" =>
          /\ medication[r].type = "object"
          /\ \E m \in Range(db.Medication) : m.id = CurrentId(r)
          /\ \A code \in Range(medication[r].product_ndc) :
                [code |-> code, medication_id |-> CurrentId(r)] \in Range(db.NDC)

\* C7's case: a request put m1 in a cabinet and then failed on m4, which the
\* lookup does not find.
C7_Witness ==
    \E r \in Slots :
        /\ req[r].kind = "post_medication"
        /\ Len(req[r].medications) = 2
        /\ req[r].medications[1].medication_id = "m1"
        /\ req[r].medications[2].medication_id = "m4"
        /\ res[r] = <<400>>
        /\ \E k \in 1..Len(db.CabinetBox) : db.CabinetBox[k].medication_id = "m1"

\* The milliseconds from start_time to end_time, summed over rows.
RECURSIVE ElapsedMs(_)
ElapsedMs(rows) ==
    IF rows = <<>> THEN 0
    ELSE (rows[1].end_time.epoch_ms - rows[1].start_time.epoch_ms) + ElapsedMs(Tail(rows))

MeanElapsedMinutes(rows) == Fraction(ElapsedMs(rows), 60000 * Len(rows))

\* C8 as stated: getIngestionTime returns one entry per medication id among
\* the intakes, whose average is the arithmetic mean of the minutes from
\* start_time to end_time of that medication's intakes.
C8_AverageIsMeanOfElapsedMinutes ==
    report.served =>
        /\ {report.rows[g].medication_id : g \in 1..Len(report.rows)} =
              {intakes[k].medication_id : k \in 1..Len(intakes)}
        /\ \A g \in 1..Len(report.rows) :
              report.rows[g].average_ingestion_time =
                  MeanElapsedMinutes(SelectSeq(intakes,
                      LAMBDA x : x.medication_id = report.rows[g].medication_id))

\* The brand name of the medication a Schedule row references.
BrandOf(row) == (CHOOSE m \in Range(db.Medication) : m.id = row.medication_id).brand_name

\* The places of what getPatientMedicationSchedule returned where Schedule
\* row `id` appears.
PlacesOf(id) ==
    {<<g, k>> \in (1..Len(view.groups)) \X (1..MaxSchedules + 1) :
        /\ k <= Len(view.groups[g].schedules)
        /\ view.groups[g].schedules[k].id = id}

\* C9: what getPatientMedicationSchedule returns for a patient has one group
\* per distinct brand name among the patient's Schedule rows and no other
\* group, and every Schedule row of the patient appears exactly once, in the
\* group of its medication's brand name; no row of another patient appears.
C9_OneGroupPerBrandName ==
    view.patient # Undefined =>
        LET mine == {k \in 1..Len(db.Schedule) : db.Schedule[k].patient_id = view.patient}
        IN /\ \A g, h \in 1..Len(view.groups) :
                 view.groups[g].brand_name = view.groups[h].brand_name => g = h
           /\ {view.groups[g].brand_name : g \in 1..Len(view.groups)} =
                 {BrandOf(db.Schedule[k]) : k \in mine}
           /\ \A k \in mine :
                 /\ Cardinality(PlacesOf(db.Schedule[k].id)) = 1
                 /\ \A place \in PlacesOf(db.Schedule[k].id) :
                       view.groups[place[1]].brand_name = BrandOf(db.Schedule[k])
           /\ \A g \in 1..Len(view.groups) :
                 \A k \in 1..Len(view.groups[g].schedules) :
                     view.groups[g].schedules[k].patient_id = view.patient

\* C9's case: the patient has two schedules for medications m1 and m2, which
\* share brand name A, and one for m3 of brand B: two groups were returned,
\* one of them with both schedules.
C9_Witness ==
    /\ view.patient = "p1"
    /\ Len(view.groups) = 2
    /\ \E g \in 1..Len(view.groups) :
          /\ Len(view.groups[g].schedules) = 2
          /\ view.groups[g].schedules[1].medication_id # view.groups[g].schedules[2].medication_id
    /\ \E k \in 1..Len(db.Schedule) : db.Schedule[k].patient_id = "p2"

\* C10 as stated: a request to a write endpoint that has finished has had its
\* transaction finished exactly once and has been answered exactly once:
\* with 200 after a commit that went through and nothing else, or with 400
\* after a rollback that went through and nothing else.
C10_FinishedOnceAnsweredOnce ==
    \A r \in Slots : Ended(r) =>
        \/ /\ res[r] = <<200>>
           /\ tlog[r] = <<[op |-> "commit", ok |-> TRUE]>>
        \/ /\ res[r] = <<400>>
           /\ tlog[r] = <<[op |-> "rollback", ok |-> TRUE]>>

\* The Medication, NDC and CabinetBox rows in the store after a step that
\* belong to medication id in cabinet c.
MedicationWritesLeft(id, c) ==
    {<<"Medication", n>> : n \in {n \in 1..Len(db'.Medication) : db'.Medication[n].id = id}}
    \cup {<<"NDC", n>> : n \in {n \in 1..Len(db'.NDC) : db'.NDC[n].medication_id = id}}
    \cup {<<"CabinetBox", n>> : n \in {n \in 1..Len(db'.CabinetBox) :
              /\ db'.CabinetBox[n].medication_id = id
              /\ db'.CabinetBox[n].cabinet_id = c}}

\* C11 as stated: when a post_medication request that found the store empty
\* and ran alone answers 400 (its cabinet_id was missing, or the lookup or an
\* upsert failed for its k-th medication), the store it leaves holds no
\* Medication, NDC or CabinetBox row written for its medications before the
\* k-th.
C11_MedicationRollsBackEarlierWrites ==
    [][\A r \in Slots :
          ( /\ req[r].kind = "post_medication"
            /\ pc[r] = "t.rollback"
            /\ pc'[r] = "done"
            /\ res'[r] = <<400>>
            /\ \A q \in Slots \ {r} : Idle(q) )
          => \A p \in 1..(i[r] - 1) :
                MedicationWritesLeft(req[r].medications[p].medication_id,
                                     req[r].cabinet_id) = {}
      ]_vars

====
